---- MODULE Spec2Model ----
(***************************************************************************)
(* Mind-Mosaic-Server: an Express 4 application over four MongoDB          *)
(* collections (users, blogs, comments, wishlist) with a cookie-borne JWT  *)
(* gate.  The repository holds two generations of the server, src/index.js *)
(* and src/unnamed/part_001; the variable build says which one is running. *)
(* Every route handler is one action (POST /api/wishlist, whose lookup and *)
(* insert are separated by an await on the database, is two).              *)
(***************************************************************************)
EXTENDS Integers, Sequences, FiniteSets, TLC

\* ------------------------------------------------------------------ bounds
MaxTime == 3        \* the clock runs 0..MaxTime (hours)
MaxIds == 3         \* ObjectIds the driver hands out: 1..MaxIds
MaxLogins == 1      \* tokens jwt.sign issues in one run
MaxInflight == 2    \* POST /api/wishlist requests between lookup and insert
MaxBlogs == 3       \* blog documents in the listings' collection
MaxItems == 2       \* wishlist documents under GET /api/wishlist/search

\* --------------------------------------------------------------- constants
TokenTTL == 3       \* expiresIn: "3h"

Builds == {"index.js", "part_001"}
JWT_SECRET == "JWT_SECRET"
Absent == "absent"      \* an undefined / missing field
BadId == 0              \* stands for a string new ObjectId() rejects
NoStatus == 0           \* no res.status(...) was sent
\* req.cookies.token undefined
NoToken == [body |-> [userId |-> 0, exp |-> 0],
            sig |-> [body |-> [userId |-> 0, exp |-> 0], key |-> "no-token"]]

VARIABLES build, env, up, now, users, blogs, comments, wishlist, nextId,
          issued, jar, inflight, last

db == <<users, blogs, comments, wishlist>>
vars == <<build, env, up, now, users, blogs, comments, wishlist, nextId,
          issued, jar, inflight, last>>

\* ------------------------------------------------------------- route table
\* A route table whose blog writes are registered without verifyJWT.
GatedRoutes_OpenBlogWrites(b) ==
  IF b = "index.js"
  THEN {"GET /api/users/:email", "POST /api/users", "PUT /api/users/:id",
        "DELETE /api/users/:id", "POST /api/comments", "PUT /api/comments/:id",
        "DELETE /api/comments/:id"}
  ELSE {"GET /api/users/:email", "PUT /api/users/:id",
        "DELETE /api/users/:id", "POST /api/comments", "PUT /api/comments/:id",
        "DELETE /api/comments/:id", "GET /api/wishlist/search",
        "GET /api/wishlist/:userId", "GET /api/wishlist/:userId/:blogId",
        "POST /api/wishlist", "DELETE /api/wishlist/:id"}

\* The routes whose registration names verifyJWT, per build.
GatedRoutes(b) ==
  IF b = "index.js"
  THEN {"GET /api/users/:email", "POST /api/users", "PUT /api/users/:id",
        "DELETE /api/users/:id", "POST /api/blogs", "PUT /api/blogs/:id",
        "DELETE /api/blogs/:id", "POST /api/comments", "PUT /api/comments/:id",
        "DELETE /api/comments/:id"}
  ELSE {"GET /api/users/:email", "PUT /api/users/:id",
        "DELETE /api/users/:id", "POST /api/blogs", "PUT /api/blogs/:id",
        "DELETE /api/blogs/:id", "POST /api/comments", "PUT /api/comments/:id",
        "DELETE /api/comments/:id", "GET /api/wishlist/search",
        "GET /api/wishlist/:userId", "GET /api/wishlist/:userId/:blogId",
        "POST /api/wishlist", "DELETE /api/wishlist/:id"}

\* Every route a build registers, in the order of its app.get/post/put/delete
\* calls.
Routes(b) ==
  IF b = "index.js"
  THEN <<"POST /api/login", "POST /api/logout", "GET /api/users/:email",
         "POST /api/users", "PUT /api/users/:id", "DELETE /api/users/:id",
         "GET /api/blogs", "GET /api/blogs/search", "GET /api/blogs/recent",
         "GET /api/blogs/:id", "POST /api/blogs", "PUT /api/blogs/:id",
         "DELETE /api/blogs/:id", "GET /api/comments/:blogId",
         "POST /api/comments", "PUT /api/comments/:id",
         "DELETE /api/comments/:id">>
  ELSE <<"POST /api/login", "POST /api/logout",
         "GET /api/users/exists/:email", "GET /api/users/:email",
         "POST /api/users", "PUT /api/users/:id", "DELETE /api/users/:id",
         "GET /api/blogs", "GET /api/blogs/search",
         "GET /api/blogs/recent/:limit", "GET /api/blogs/recent",
         "GET /api/blogs/top/:limit", "GET /api/blogs/:id", "POST /api/blogs",
         "PUT /api/blogs/:id", "DELETE /api/blogs/:id",
         "GET /api/comments/:blogId", "POST /api/comments",
         "PUT /api/comments/:id", "DELETE /api/comments/:id",
         "GET /api/wishlist/search", "GET /api/wishlist/:userId",
         "GET /api/wishlist/:userId/:blogId", "POST /api/wishlist",
         "DELETE /api/wishlist/:id">>

Registered(route) == \E i \in DOMAIN Routes(build) : Routes(build)[i] = route
IsGated(route) == route \in GatedRoutes(build)

\* ------------------------------------------------------------------ tokens
\* jwt.sign(payload, key, {expiresIn}): the payload with its expiry, and a
\* signature that binds exactly that payload to the key.
JwtSign(userId, key, iat) ==
  LET body == [userId |-> userId, exp |-> iat + TokenTTL]
  IN  [body |-> body, sig |-> [body |-> body, key |-> key]]

\* A verification that decodes without checking the signature.
JwtVerify_Decode(token, key, clock) == clock < token.body.exp

\* jwt.verify(token, key): the signature must be the key's over the payload
\* carried, and the clock must not have reached exp.
JwtVerify(token, key, clock) ==
  /\ token.sig = [body |-> token.body, key |-> key]
  /\ clock < token.body.exp

\* What a client can put in the cookie header: nothing, a token the server
\* issued, an issued token with its payload edited (the signature kept), or
\* a token signed with a key of the client's own.
Tampered(t) == [t EXCEPT !.body.exp = t.body.exp + TokenTTL]
Forged(t) == JwtSign(t.body.userId, "other-key", t.body.exp - TokenTTL)
Cookies == {NoToken} \cup issued
           \cup {Tampered(t) : t \in issued} \cup {Forged(t) : t \in issued}

\* verifyJWT without its "if (!token)" branch.
verifyJWT_NoMissingCheck(cookie) ==
  IF ~JwtVerify(cookie, JWT_SECRET, now) THEN 401 ELSE NoStatus

\* verifyJWT tied to the browser session: a token the jar no longer holds is
\* turned away.
verifyJWT_Session(cookie) ==
  IF cookie = NoToken THEN 403
  ELSE IF ~JwtVerify(cookie, JWT_SECRET, now) \/ cookie # jar THEN 401
  ELSE NoStatus

\* verifyJWT's verdict: 403 without a token, 401 when jwt.verify throws,
\* NoStatus when the handler is to run.
verifyJWT(cookie) ==
  IF cookie = NoToken THEN 403
  ELSE IF ~JwtVerify(cookie, JWT_SECRET, now) THEN 401
  ELSE NoStatus

\* The verdict at the door of a route: verifyJWT's on a gated route.
Gate(route, cookie) == IF IsGated(route) THEN verifyJWT(cookie) ELSE NoStatus

\* ---------------------------------------------------------------- responses
\* One exchange: the request (its route, its cookie, and in req the inputs the
\* handler read), whether the handler was called, the status sent (NoStatus
\* when none was), the Set-Cookie of the response and its body.
Response(route, cookie, req, status, ran, set, body) ==
  [route |-> route, cookie |-> cookie, req |-> req, status |-> status,
   ran |-> ran, set |-> set, body |-> body]

\* No exchange is on the wire.
Idle == Response("none", NoToken, <<>>, NoStatus, FALSE, {}, <<>>)

\* The server process is running and the previous exchange is over.
Ready == up /\ last = Idle

\* res.status(s).send/json: the exchange ends with status s.
Reply(route, cookie, status, ran) ==
  last' = Response(route, cookie, <<>>, status, ran, {}, <<>>)

\* The gate answered: the handler is not called, nothing else changes.
Refuse(route, cookie) ==
  /\ Reply(route, cookie, Gate(route, cookie), FALSE)
  /\ UNCHANGED <<build, env, up, now, users, blogs, comments, wishlist,
                 nextId, issued, jar, inflight>>

\* An async handler threw: Express 4 calls the handler inside a synchronous
\* try/catch and drops the promise it returns, so the rejection is unhandled
\* and no response is written.  Node then either only warns (the request
\* stays open) or terminates the process, by version and flags.
Throw(route, cookie) ==
  /\ last' = Response(route, cookie, <<>>, NoStatus, TRUE, {}, <<>>)
  /\ up' \in BOOLEAN
  /\ UNCHANGED <<build, env, now, users, blogs, comments, wishlist,
                 nextId, issued, jar, inflight>>

\* The arrays toArray() can give for a set of documents.
Arrays(docs) ==
  {list \in [1..Cardinality(docs) -> docs] :
     \A i, j \in DOMAIN list : i # j => list[i] # list[j]}

\* new ObjectId(s) throws on a string that is no ObjectId.
ObjectIdThrows(s) == s = BadId
IdParams == {1, MaxIds, BadId}

\* An update with upsert: true, which inserts the body under the id when no
\* document has it.
UpdateOne_Upsert(coll, id, body) ==
  IF \E d \in coll : d._id = id
  THEN {IF d._id = id
          THEN [f \in DOMAIN d \cup DOMAIN body |->
                  IF f \in DOMAIN body THEN body[f] ELSE d[f]]
          ELSE d : d \in coll}
  ELSE coll \cup {[f \in DOMAIN body \cup {"_id"} |->
                     IF f = "_id" THEN id ELSE body[f]]}

\* updateOne({_id: id}, {$set: body}): the fields the body names are set on
\* the document with that id, if there is one.
UpdateOne(coll, id, body) ==
  {IF d._id = id
     THEN [f \in DOMAIN d \cup DOMAIN body |->
             IF f \in DOMAIN body THEN body[f] ELSE d[f]]
     ELSE d : d \in coll}

\* deleteOne({_id: id})
DeleteOne(coll, id) == {d \in coll : d._id # id}

\* insertOne(doc): the driver adds a fresh _id.
WithId(doc, id) ==
  [f \in DOMAIN doc \cup {"_id"} |-> IF f = "_id" THEN id ELSE doc[f]]

\* --------------------------------------------------------------------- Init
SeedUser == [_id |-> 1, email |-> "a@x", userName |-> "ann",
             profileImage |-> "img"]

Init ==
  /\ build \in Builds
  /\ env \in [SECURE : {"production", "development"}]
  /\ up = TRUE
  /\ now = 0
  /\ users = {SeedUser}
  /\ blogs = {}
  /\ comments = {}
  /\ wishlist = {}
  /\ nextId = MaxIds
  /\ issued = {}
  /\ jar = NoToken
  /\ inflight = {}
  /\ last = Idle

\* The clock advances.
Tick ==
  /\ Ready
  /\ now < MaxTime
  /\ now' = now + 1
  /\ UNCHANGED <<build, env, up, users, blogs, comments, wishlist, nextId,
                 issued, jar, inflight, last>>

\* The exchange is over: the client has what the server sent (or, after a
\* throw, has given up waiting on the open connection).
Deliver ==
  /\ last # Idle
  /\ last' = Idle
  /\ UNCHANGED <<build, env, up, now, users, blogs, comments, wishlist, nextId,
                 issued, jar, inflight>>

\* ------------------------------------------------------------ login, logout
\* findOne's filter of POST /api/login: {email} in part_001, {userName, email}
\* in index.js (an undefined userName is sent as null and matches a document
\* without the field).
LoginFilter(u, body) ==
  IF build = "index.js"
  THEN u.userName = body.userName /\ u.email = body.email
  ELSE u.email = body.email

\* The options of res.cookie("token", ...).  index.js evaluates the
\* assignment process.env.SECURE = "production", a truthy string.
CookieOptions ==
  IF build = "index.js"
  THEN [httpOnly |-> TRUE, secure |-> TRUE, sameSite |-> Absent]
  ELSE [httpOnly |-> TRUE, secure |-> env.SECURE = "production",
        sameSite |-> IF env.SECURE = "production" THEN "none" ELSE "strict"]

EnvAfterLogin ==
  IF build = "index.js" THEN [env EXCEPT !.SECURE = "production"] ELSE env

Login(body) ==
  /\ Ready
  /\ LET found == {u \in users : LoginFilter(u, body)} IN
     IF found = {}
     THEN /\ last' = Response("POST /api/login", NoToken, <<body>>, 401,
                              TRUE, {}, <<>>)
          /\ UNCHANGED <<env, issued, jar>>
     ELSE \E user \in found :
            LET token == JwtSign(user._id, JWT_SECRET, now) IN
            /\ Cardinality(issued \cup {token}) <= MaxLogins
            /\ issued' = issued \cup {token}
            /\ jar' = token
            /\ env' = EnvAfterLogin
            /\ last' = Response("POST /api/login", NoToken, <<body>>, 200, TRUE,
                                {[token |-> token, options |-> CookieOptions]},
                                <<token>>)
  /\ UNCHANGED <<build, up, now, users, blogs, comments, wishlist, nextId,
                 inflight>>

\* res.clearCookie("token"): the browser drops what its jar holds.  Nothing
\* on the server records it.
Logout ==
  /\ Ready
  /\ jar' = NoToken
  /\ last' = Response("POST /api/logout", jar, <<>>, 200, TRUE,
                      {[token |-> NoToken, options |-> [httpOnly |-> FALSE,
                         secure |-> FALSE, sameSite |-> Absent]]}, <<>>)
  /\ UNCHANGED <<build, env, up, now, users, blogs, comments, wishlist,
                 nextId, issued, inflight>>

\* ----------------------------------------------------------------- routing
\* The method and the path of a registration; a path is its segments, and a
\* segment that starts with a colon is a parameter.
RoutePattern(route) ==
  CASE route = "POST /api/login" -> <<"POST", <<"api", "login">>>>
    [] route = "POST /api/logout" -> <<"POST", <<"api", "logout">>>>
    [] route = "GET /api/users/exists/:email"
         -> <<"GET", <<"api", "users", "exists", ":email">>>>
    [] route = "GET /api/users/:email" -> <<"GET", <<"api", "users", ":email">>>>
    [] route = "POST /api/users" -> <<"POST", <<"api", "users">>>>
    [] route = "PUT /api/users/:id" -> <<"PUT", <<"api", "users", ":id">>>>
    [] route = "DELETE /api/users/:id" -> <<"DELETE", <<"api", "users", ":id">>>>
    [] route = "GET /api/blogs" -> <<"GET", <<"api", "blogs">>>>
    [] route = "GET /api/blogs/search" -> <<"GET", <<"api", "blogs", "search">>>>
    [] route = "GET /api/blogs/recent/:limit"
         -> <<"GET", <<"api", "blogs", "recent", ":limit">>>>
    [] route = "GET /api/blogs/recent" -> <<"GET", <<"api", "blogs", "recent">>>>
    [] route = "GET /api/blogs/top/:limit"
         -> <<"GET", <<"api", "blogs", "top", ":limit">>>>
    [] route = "GET /api/blogs/:id" -> <<"GET", <<"api", "blogs", ":id">>>>
    [] route = "POST /api/blogs" -> <<"POST", <<"api", "blogs">>>>
    [] route = "PUT /api/blogs/:id" -> <<"PUT", <<"api", "blogs", ":id">>>>
    [] route = "DELETE /api/blogs/:id" -> <<"DELETE", <<"api", "blogs", ":id">>>>
    [] route = "GET /api/comments/:blogId"
         -> <<"GET", <<"api", "comments", ":blogId">>>>
    [] route = "POST /api/comments" -> <<"POST", <<"api", "comments">>>>
    [] route = "PUT /api/comments/:id" -> <<"PUT", <<"api", "comments", ":id">>>>
    [] route = "DELETE /api/comments/:id"
         -> <<"DELETE", <<"api", "comments", ":id">>>>
    [] route = "GET /api/wishlist/search"
         -> <<"GET", <<"api", "wishlist", "search">>>>
    [] route = "GET /api/wishlist/:userId"
         -> <<"GET", <<"api", "wishlist", ":userId">>>>
    [] route = "GET /api/wishlist/:userId/:blogId"
         -> <<"GET", <<"api", "wishlist", ":userId", ":blogId">>>>
    [] route = "POST /api/wishlist" -> <<"POST", <<"api", "wishlist">>>>
    [] route = "DELETE /api/wishlist/:id"
         -> <<"DELETE", <<"api", "wishlist", ":id">>>>

IsParam(segment) ==
  segment \in {":id", ":email", ":limit", ":blogId", ":userId"}

\* Express's test of one layer: the method is the registration's, and the
\* path has its segments, a parameter standing for any one segment.
Fits(route, method, path) ==
  LET pattern == RoutePattern(route)[2] IN
  /\ RoutePattern(route)[1] = method
  /\ Len(pattern) = Len(path)
  /\ \A i \in DOMAIN pattern : IsParam(pattern[i]) \/ pattern[i] = path[i]

NoRoute == "no route"

\* A router that takes the last registration that fits.
Dispatch_LastFits(method, path) ==
  LET table == Routes(build)
      fitting == {i \in DOMAIN table : Fits(table[i], method, path)}
  IN  IF fitting = {} THEN NoRoute
      ELSE table[CHOOSE i \in fitting : \A j \in fitting : j <= i]

\* The router walks its stack in registration order and calls the first
\* layer that fits (none of the handlers calls next()).
Dispatch(method, path) ==
  LET table == Routes(build)
      fitting == {i \in DOMAIN table : Fits(table[i], method, path)}
  IN  IF fitting = {} THEN NoRoute
      ELSE table[CHOOSE i \in fitting : \A j \in fitting : i <= j]

\* A path segment read as an id: "1", "2", "3" name the ids 1..3, any other
\* string is no ObjectId and names no user.
ParamId(segment) ==
  CASE segment = "1" -> 1 [] segment = "2" -> 2 [] segment = "3" -> 3
    [] OTHER -> BadId

\* -------------------------------------------------------------------- users
\* GET /api/users/:email
GetUser(cookie, emails) ==
  /\ Ready /\ Registered("GET /api/users/:email")
  /\ IF Gate("GET /api/users/:email", cookie) # NoStatus
     THEN Refuse("GET /api/users/:email", cookie)
     ELSE \E email \in emails :
          /\ last' = Response("GET /api/users/:email", cookie, <<email>>, 200,
                              TRUE, {}, <<{u \in users : u.email = email}>>)
          /\ UNCHANGED <<build, env, up, now, users, blogs, comments,
                         wishlist, nextId, issued, jar, inflight>>

\* POST /api/users
PostUser(cookie, bodies) ==
  /\ Ready /\ Registered("POST /api/users")
  /\ IF Gate("POST /api/users", cookie) # NoStatus
     THEN Refuse("POST /api/users", cookie)
     ELSE \E body \in bodies :
          /\ nextId <= MaxIds
          /\ users' = users \cup {WithId(body, nextId)}
          /\ nextId' = nextId + 1
          /\ Reply("POST /api/users", cookie, 201, TRUE)
          /\ UNCHANGED <<build, env, up, now, blogs, comments, wishlist,
                         issued, jar, inflight>>

\* An update that also rewrites the author's name and image on the comments
\* the user wrote.
PutUser_Reconciles(cookie, ids, bodies) ==
  /\ Ready /\ Registered("PUT /api/users/:id")
  /\ IF Gate("PUT /api/users/:id", cookie) # NoStatus
     THEN Refuse("PUT /api/users/:id", cookie)
     ELSE \E id \in ids, body \in bodies :
          IF ObjectIdThrows(id) THEN Throw("PUT /api/users/:id", cookie)
          ELSE
          /\ users' = UpdateOne(users, id, body)
          /\ comments' =
               {IF c.userId = id /\ "userName" \in DOMAIN body
                  THEN [c EXCEPT !.userName = body.userName] ELSE c :
                c \in comments}
          /\ last' = Response("PUT /api/users/:id", cookie, <<id, body>>, 200,
                              TRUE, {}, <<>>)
          /\ UNCHANGED <<build, env, up, now, blogs, wishlist,
                         nextId, issued, jar, inflight>>

\* PUT /api/users/:id
PutUser(cookie, ids, bodies) ==
  /\ Ready /\ Registered("PUT /api/users/:id")
  /\ IF Gate("PUT /api/users/:id", cookie) # NoStatus
     THEN Refuse("PUT /api/users/:id", cookie)
     ELSE \E id \in ids, body \in bodies :
          IF ObjectIdThrows(id) THEN Throw("PUT /api/users/:id", cookie)
          ELSE
          /\ users' = UpdateOne(users, id, body)
          /\ last' = Response("PUT /api/users/:id", cookie, <<id, body>>, 200,
                              TRUE, {}, <<>>)
          /\ UNCHANGED <<build, env, up, now, blogs, comments, wishlist,
                         nextId, issued, jar, inflight>>

\* DELETE /api/users/:id
DeleteUser(cookie, ids) ==
  /\ Ready /\ Registered("DELETE /api/users/:id")
  /\ IF Gate("DELETE /api/users/:id", cookie) # NoStatus
     THEN Refuse("DELETE /api/users/:id", cookie)
     ELSE \E id \in ids :
          IF ObjectIdThrows(id) THEN Throw("DELETE /api/users/:id", cookie)
          ELSE
          /\ users' = DeleteOne(users, id)
          /\ last' = Response("DELETE /api/users/:id", cookie, <<id>>, 200,
                              TRUE, {}, <<>>)
          /\ UNCHANGED <<build, env, up, now, blogs, comments, wishlist,
                         nextId, issued, jar, inflight>>

\* -------------------------------------------------------------------- blogs
\* The join-like enrichment of a new blog or comment: the user whose _id is
\* the body's userId, if any, gives the document its userImage and userName.
Enrich(doc) ==
  LET found == {u \in users : u._id = doc.userId} IN
  IF found = {} THEN doc
  ELSE LET user == CHOOSE u \in found : TRUE IN
       [doc EXCEPT !.userImage = user.profileImage, !.userName = user.userName]

\* POST /api/blogs: index.js enriches the body; in part_001 those lines are
\* commented out and the body is stored as sent.
NewBlog(body) == IF build = "index.js" THEN Enrich(body) ELSE body

PostBlog(cookie, bodies) ==
  /\ Ready /\ Registered("POST /api/blogs")
  /\ IF Gate("POST /api/blogs", cookie) # NoStatus
     THEN Refuse("POST /api/blogs", cookie)
     ELSE \E body \in bodies :
          IF build = "index.js" /\ ObjectIdThrows(body.userId)
          THEN Throw("POST /api/blogs", cookie)
          ELSE
          /\ nextId <= MaxIds
          /\ blogs' = blogs \cup {WithId(NewBlog(body), nextId)}
          /\ nextId' = nextId + 1
          /\ Reply("POST /api/blogs", cookie, 201, TRUE)
          /\ UNCHANGED <<build, env, up, now, users, comments, wishlist,
                         issued, jar, inflight>>

\* PUT /api/blogs/:id
PutBlog(cookie, ids, bodies) ==
  /\ Ready /\ Registered("PUT /api/blogs/:id")
  /\ IF Gate("PUT /api/blogs/:id", cookie) # NoStatus
     THEN Refuse("PUT /api/blogs/:id", cookie)
     ELSE \E id \in ids, body \in bodies :
          IF ObjectIdThrows(id) THEN Throw("PUT /api/blogs/:id", cookie)
          ELSE
          /\ blogs' = UpdateOne(blogs, id, body)
          /\ last' = Response("PUT /api/blogs/:id", cookie, <<id, body>>, 200,
                              TRUE, {}, <<>>)
          /\ UNCHANGED <<build, env, up, now, users, comments, wishlist,
                         nextId, issued, jar, inflight>>

\* DELETE /api/blogs/:id
DeleteBlog(cookie, ids) ==
  /\ Ready /\ Registered("DELETE /api/blogs/:id")
  /\ IF Gate("DELETE /api/blogs/:id", cookie) # NoStatus
     THEN Refuse("DELETE /api/blogs/:id", cookie)
     ELSE \E id \in ids :
          IF ObjectIdThrows(id) THEN Throw("DELETE /api/blogs/:id", cookie)
          ELSE
          /\ blogs' = DeleteOne(blogs, id)
          /\ last' = Response("DELETE /api/blogs/:id", cookie, <<id>>, 200,
                              TRUE, {}, <<>>)
          /\ UNCHANGED <<build, env, up, now, users, comments, wishlist,
                         nextId, issued, jar, inflight>>

\* --------------------------------------------------------- blog listings
\* Strings are sequences of one-character strings.  NoParam is a query
\* parameter the URL does not carry (undefined in req.query).
NoParam == <<"undefined">>

\* JavaScript truthiness of a query parameter: undefined and "" are falsy.
Truthy(p) == p # NoParam /\ p # <<>>

\* String.prototype.trim
RECURSIVE TrimStart(_)
TrimStart(str) ==
  IF str # <<>> /\ Head(str) = " " THEN TrimStart(Tail(str)) ELSE str
RECURSIVE TrimEnd(_)
TrimEnd(str) ==
  IF str # <<>> /\ str[Len(str)] = " "
  THEN TrimEnd(SubSeq(str, 1, Len(str) - 1)) ELSE str
Trim(str) == TrimEnd(TrimStart(str))

\* Case folding of $options: "i", over the letters the model uses.
Fold(c) == IF c = "A" THEN "a" ELSE IF c = "B" THEN "b" ELSE c

\* {$regex: pattern, $options: "i"}: the pattern is a regular expression, not
\* a literal.  Of the metacharacters the model's alphabet holds "." (any one
\* character) and "(" (which, never closed, makes the pattern invalid and the
\* query fail).
RegexValid(pattern) == \A i \in DOMAIN pattern : pattern[i] # "("
RegexMatchesAt(pattern, str, i) ==
  \A j \in DOMAIN pattern :
     pattern[j] = "." \/ Fold(pattern[j]) = Fold(str[i + j - 1])
RegexFind(pattern, str) ==
  \E i \in 1..(Len(str) - Len(pattern) + 1) : RegexMatchesAt(pattern, str, i)

\* The filter GET /api/blogs/search builds from req.query.
SearchFilter(category, query) ==
  [f \in (IF Truthy(category) THEN {"category"} ELSE {})
         \cup (IF Truthy(query) THEN {"title"} ELSE {})
     |-> IF f = "category" THEN Trim(category) ELSE Trim(query)]

\* find(filter): equality on category, the regular expression on title.
Find(coll, filter) ==
  {b \in coll :
     /\ "category" \in DOMAIN filter => b.category = filter.category
     /\ "title" \in DOMAIN filter => RegexFind(filter.title, b.title)}

\* sort({publishedDateTime: -1}) (publishedDate in index.js): published is
\* the field the running build sorts on.  Documents with equal dates come in
\* any order.
Sorted(list) ==
  \A i, j \in DOMAIN list : i < j => list[i].published >= list[j].published

\* The lists cursor.sort(...).toArray() can give for the documents in coll.
Listings(coll) ==
  {list \in [1..Cardinality(coll) -> coll] :
     /\ \A i, j \in DOMAIN list : i # j => list[i] # list[j]
     /\ Sorted(list)}

\* parseInt(s): optional sign, then the leading decimal digits.  The model
\* passes only strings that start with a number.
DigitValue(c) == CASE c = "0" -> 0 [] c = "1" -> 1 [] c = "2" -> 2
                   [] c = "3" -> 3 [] c = "4" -> 4 [] OTHER -> 0 - 1
RECURSIVE ParseDigits(_, _)
ParseDigits(str, acc) ==
  IF str = <<>> \/ DigitValue(Head(str)) < 0 THEN acc
  ELSE ParseDigits(Tail(str), 10 * acc + DigitValue(Head(str)))
ParseInt(str) ==
  IF str # <<>> /\ Head(str) = "-" THEN 0 - ParseDigits(Tail(str), 0)
  ELSE ParseDigits(str, 0)

\* cursor.limit(n): the driver sends a negative n as its absolute value, and
\* the server reads a limit of 0 as no limit.
Limit(list, n) ==
  IF n = 0 THEN list
  ELSE LET k == IF n < 0 THEN 0 - n ELSE n
       IN  SubSeq(list, 1, IF k < Len(list) THEN k ELSE Len(list))

\* GET /api/blogs
GetBlogs ==
  /\ Ready /\ Registered("GET /api/blogs")
  /\ \E list \in [1..Cardinality(blogs) -> blogs] :
       /\ \A i, j \in DOMAIN list : i # j => list[i] # list[j]
       /\ last' = Response("GET /api/blogs", NoToken, <<>>, 200, TRUE, {}, list)
  /\ UNCHANGED <<build, env, up, now, users, blogs, comments, wishlist,
                 nextId, issued, jar, inflight>>

\* GET /api/blogs/search
SearchBlogs(category, query) ==
  /\ Ready /\ Registered("GET /api/blogs/search")
  /\ LET filter == SearchFilter(category, query) IN
     IF "title" \in DOMAIN filter /\ ~RegexValid(filter.title)
     THEN /\ last' = Response("GET /api/blogs/search", NoToken,
                              <<category, query>>, NoStatus, TRUE, {}, <<>>)
          /\ up' \in BOOLEAN
          /\ UNCHANGED <<build, env, now, users, blogs, comments, wishlist,
                         nextId, issued, jar, inflight>>
     ELSE \E list \in Listings(Find(blogs, filter)) :
          /\ last' = Response("GET /api/blogs/search", NoToken,
                              <<category, query>>, 200, TRUE, {}, list)
          /\ UNCHANGED <<build, env, up, now, users, blogs, comments,
                         wishlist, nextId, issued, jar, inflight>>

\* GET /api/blogs/recent/:limit
RecentLimit(limit) ==
  /\ Ready /\ Registered("GET /api/blogs/recent/:limit")
  /\ \E list \in Listings(blogs) :
       last' = Response("GET /api/blogs/recent/:limit", NoToken, <<limit>>,
                        200, TRUE, {}, Limit(list, ParseInt(limit)))
  /\ UNCHANGED <<build, env, up, now, users, blogs, comments, wishlist,
                 nextId, issued, jar, inflight>>

\* GET /api/blogs/recent
RecentBlogs ==
  /\ Ready /\ Registered("GET /api/blogs/recent")
  /\ \E list \in Listings(blogs) :
       last' = Response("GET /api/blogs/recent", NoToken, <<>>, 200, TRUE,
                        {}, list)
  /\ UNCHANGED <<build, env, up, now, users, blogs, comments, wishlist,
                 nextId, issued, jar, inflight>>

\* GET /api/blogs/:id
GetBlog(id) ==
  /\ Ready /\ Registered("GET /api/blogs/:id")
  /\ IF ObjectIdThrows(id) THEN Throw("GET /api/blogs/:id", NoToken)
     ELSE /\ \E list \in Arrays({b \in blogs : b._id = id}) :
               last' = Response("GET /api/blogs/:id", NoToken, <<id>>, 200,
                                TRUE, {}, list)
          /\ UNCHANGED <<build, env, up, now, users, blogs, comments,
                         wishlist, nextId, issued, jar, inflight>>

\* ----------------------------------------------------------------- comments
\* POST /api/comments
PostComment(cookie, bodies) ==
  /\ Ready /\ Registered("POST /api/comments")
  /\ IF Gate("POST /api/comments", cookie) # NoStatus
     THEN Refuse("POST /api/comments", cookie)
     ELSE \E body \in bodies :
          IF ObjectIdThrows(body.userId)
          THEN Throw("POST /api/comments", cookie)
          ELSE
          /\ nextId <= MaxIds
          /\ comments' = comments \cup {WithId(Enrich(body), nextId)}
          /\ nextId' = nextId + 1
          /\ Reply("POST /api/comments", cookie, 201, TRUE)
          /\ UNCHANGED <<build, env, up, now, users, blogs, wishlist,
                         issued, jar, inflight>>

\* PUT /api/comments/:id
PutComment(cookie, ids, bodies) ==
  /\ Ready /\ Registered("PUT /api/comments/:id")
  /\ IF Gate("PUT /api/comments/:id", cookie) # NoStatus
     THEN Refuse("PUT /api/comments/:id", cookie)
     ELSE \E id \in ids, body \in bodies :
          IF ObjectIdThrows(id) THEN Throw("PUT /api/comments/:id", cookie)
          ELSE
          /\ comments' = UpdateOne(comments, id, body)
          /\ last' = Response("PUT /api/comments/:id", cookie, <<id, body>>, 200,
                              TRUE, {}, <<>>)
          /\ UNCHANGED <<build, env, up, now, users, blogs, wishlist,
                         nextId, issued, jar, inflight>>

\* DELETE /api/comments/:id
DeleteComment(cookie, ids) ==
  /\ Ready /\ Registered("DELETE /api/comments/:id")
  /\ IF Gate("DELETE /api/comments/:id", cookie) # NoStatus
     THEN Refuse("DELETE /api/comments/:id", cookie)
     ELSE \E id \in ids :
          IF ObjectIdThrows(id) THEN Throw("DELETE /api/comments/:id", cookie)
          ELSE
          /\ comments' = DeleteOne(comments, id)
          /\ last' = Response("DELETE /api/comments/:id", cookie, <<id>>, 200,
                              TRUE, {}, <<>>)
          /\ UNCHANGED <<build, env, up, now, users, blogs, wishlist,
                         nextId, issued, jar, inflight>>

\* ----------------------------------------------------------------- wishlist
\* A lookup by userId alone.
ExistingItem_UserOnly(body) == {w \in wishlist : w.userId = body.userId}

\* A lookup with the two ids the wrong way round.
ExistingItem_Swapped(body) ==
  {w \in wishlist : w.userId = body.blogId /\ w.blogId = body.userId}

\* findOne({userId, blogId}) of POST /api/wishlist
ExistingItem(body) ==
  {w \in wishlist : w.userId = body.userId /\ w.blogId = body.blogId}

\* POST /api/wishlist up to its first await: the gate, then the lookup.  A
\* hit answers 400; otherwise the request waits for its insertOne in a slot
\* of inflight.
WishlistLookup(cookie, bodies, slots) ==
  /\ Ready /\ Registered("POST /api/wishlist")
  /\ IF Gate("POST /api/wishlist", cookie) # NoStatus
     THEN Refuse("POST /api/wishlist", cookie)
     ELSE \E body \in bodies :
          IF ExistingItem(body) # {}
          THEN /\ last' = Response("POST /api/wishlist", cookie, <<body>>,
                                   400, TRUE, {}, <<>>)
               /\ UNCHANGED <<build, env, up, now, users, blogs, comments,
                              wishlist, nextId, issued, jar, inflight>>
          ELSE \E slot \in 1..slots :
               /\ \A r \in inflight : r.slot # slot
               /\ \A free \in 1..(slot - 1) : \E r \in inflight : r.slot = free
               /\ inflight' = inflight \cup
                     {[slot |-> slot, cookie |-> cookie, at |-> now,
                       body |-> body]}
               /\ UNCHANGED <<build, env, up, now, users, blogs, comments,
                              wishlist, nextId, issued, jar, last>>

\* An insert that looks the pair up again and gives up on a hit.
WishlistInsert_Checked(r) ==
  /\ Ready /\ r \in inflight
  /\ nextId <= MaxIds
  /\ IF ExistingItem(r.body) # {}
     THEN /\ UNCHANGED <<wishlist, nextId>>
          /\ last' = Response("POST /api/wishlist", r.cookie, <<r.body>>, 400,
                              TRUE, {}, <<>>)
     ELSE /\ wishlist' = wishlist \cup {WithId(r.body, nextId)}
          /\ nextId' = nextId + 1
          /\ last' = Response("POST /api/wishlist", r.cookie, <<r.body>>, 201,
                              TRUE, {}, <<>>)
  /\ inflight' = inflight \ {r}
  /\ UNCHANGED <<build, env, up, now, users, blogs, comments, issued, jar>>

\* POST /api/wishlist after the lookup's await: insertOne, then 201.
WishlistInsert(r) ==
  /\ Ready /\ r \in inflight
  /\ nextId <= MaxIds
  /\ wishlist' = wishlist \cup {WithId(r.body, nextId)}
  /\ nextId' = nextId + 1
  /\ inflight' = inflight \ {r}
  /\ last' = Response("POST /api/wishlist", r.cookie, <<r.body>>, 201, TRUE,
                      {}, <<>>)
  /\ UNCHANGED <<build, env, up, now, users, blogs, comments, issued, jar>>

\* A query parameter given more than once: req.query holds an array, which
\* is truthy and has no trim method.
ArrayParam == <<"array">>
HasTrim(p) == p # ArrayParam

\* Whether the try block of GET /api/wishlist/search throws: .trim() on an
\* array while the filter is built, or find() rejecting the pattern.
SearchThrows(category, query) ==
  \/ Truthy(category) /\ ~HasTrim(category)
  \/ Truthy(query) /\ ~HasTrim(query)
  \/ Truthy(query) /\ ~RegexValid(Trim(query))

\* wishlistCollection.find(filter) for filter = {userId, category?, title?}.
\* A document without the field (NoParam stands for the missing value) does
\* not match an equality or a pattern.
WishFind(coll, category, query, userId) ==
  {w \in coll :
     /\ w.userId = userId
     /\ Truthy(category)
          => w.category # NoParam /\ w.category = Trim(category)
     /\ Truthy(query)
          => w.title # NoParam /\ RegexFind(Trim(query), w.title)}

NoMatchMessage == [message |-> "No matching items found."]
FailedMessage == [message |-> "Failed to fetch wishlist items."]

\* The handler without its try/catch.
WishlistSearch_NoCatch(cookie, categories, queries, userIds) ==
  /\ Ready /\ Registered("GET /api/wishlist/search")
  /\ IF Gate("GET /api/wishlist/search", cookie) # NoStatus
     THEN Refuse("GET /api/wishlist/search", cookie)
     ELSE \E category \in categories, query \in queries, userId \in userIds :
          IF SearchThrows(category, query)
          THEN Throw("GET /api/wishlist/search", cookie)
          ELSE \E list \in Arrays(WishFind(wishlist, category, query, userId)) :
               /\ last' = Response("GET /api/wishlist/search", cookie,
                                   <<category, query, userId>>, 200, TRUE, {},
                                   IF list = <<>> THEN <<NoMatchMessage>>
                                   ELSE list)
               /\ UNCHANGED <<build, env, up, now, users, blogs, comments,
                              wishlist, nextId, issued, jar, inflight>>

\* GET /api/wishlist/search
WishlistSearch(cookie, categories, queries, userIds) ==
  /\ Ready /\ Registered("GET /api/wishlist/search")
  /\ IF Gate("GET /api/wishlist/search", cookie) # NoStatus
     THEN Refuse("GET /api/wishlist/search", cookie)
     ELSE \E category \in categories, query \in queries, userId \in userIds :
          /\ IF SearchThrows(category, query)
             THEN last' = Response("GET /api/wishlist/search", cookie,
                                   <<category, query, userId>>, 500, TRUE, {},
                                   <<FailedMessage>>)
             ELSE \E list \in Arrays(WishFind(wishlist, category, query, userId)) :
                  last' = Response("GET /api/wishlist/search", cookie,
                                   <<category, query, userId>>, 200, TRUE, {},
                                   IF list = <<>> THEN <<NoMatchMessage>>
                                   ELSE list)
          /\ UNCHANGED <<build, env, up, now, users, blogs, comments,
                         wishlist, nextId, issued, jar, inflight>>

\* DELETE /api/wishlist/:id
DeleteWishlist(cookie, ids) ==
  /\ Ready /\ Registered("DELETE /api/wishlist/:id")
  /\ IF Gate("DELETE /api/wishlist/:id", cookie) # NoStatus
     THEN Refuse("DELETE /api/wishlist/:id", cookie)
     ELSE \E id \in ids :
          IF ObjectIdThrows(id) THEN Throw("DELETE /api/wishlist/:id", cookie)
          ELSE
          /\ wishlist' = DeleteOne(wishlist, id)
          /\ Reply("DELETE /api/wishlist/:id", cookie, 200, TRUE)
          /\ UNCHANGED <<build, env, up, now, users, blogs, comments,
                         nextId, issued, jar, inflight>>

\* GET /api/wishlist/:userId
GetWishlist(cookie, userId) ==
  /\ Ready /\ Registered("GET /api/wishlist/:userId")
  /\ IF Gate("GET /api/wishlist/:userId", cookie) # NoStatus
     THEN Refuse("GET /api/wishlist/:userId", cookie)
     ELSE /\ \E list \in Arrays({w \in wishlist : w.userId = userId}) :
               last' = Response("GET /api/wishlist/:userId", cookie,
                                <<userId>>, 200, TRUE, {}, list)
          /\ UNCHANGED <<build, env, up, now, users, blogs, comments,
                         wishlist, nextId, issued, jar, inflight>>

\* GET /api/wishlist/:userId/:blogId
CheckWishlist(cookie, userId, blogId) ==
  /\ Ready /\ Registered("GET /api/wishlist/:userId/:blogId")
  /\ IF Gate("GET /api/wishlist/:userId/:blogId", cookie) # NoStatus
     THEN Refuse("GET /api/wishlist/:userId/:blogId", cookie)
     ELSE /\ last' = Response("GET /api/wishlist/:userId/:blogId", cookie,
                              <<userId, blogId>>, 200, TRUE, {},
                              <<[exists |->
                                   ExistingItem([userId |-> userId,
                                                 blogId |-> blogId]) # {}]>>)
          /\ UNCHANGED <<build, env, up, now, users, blogs, comments,
                         wishlist, nextId, issued, jar, inflight>>

\* ------------------------------------------------------------ request bodies
LoginBodies == {[email |-> "a@x", userName |-> "ann"],
                [email |-> "a@x", userName |-> "bob"],
                [email |-> "a@x", userName |-> Absent],
                [email |-> "b@x", userName |-> "bob"]}
UserBodies == {[email |-> "a@x", userName |-> "ann", profileImage |-> "img"],
               [email |-> "b@x", userName |-> "bob", profileImage |-> "img"]}
UserUpdates == {[userName |-> "bob"]}
BlogBodies ==
  {[title |-> <<"a">>, category |-> <<"t">>, published |-> 1, userId |-> u,
    userName |-> "sent", userImage |-> "sent"] : u \in {1, BadId}}
BlogUpdates == {[title |-> <<"b">>]}
CommentBodies ==
  {[blogId |-> 2, userId |-> u, text |-> "hi", userName |-> "sent",
    userImage |-> "sent"] : u \in {1, BadId}}
CommentUpdates == {[text |-> "edited"]}
WishBodies == {[userId |-> 1, blogId |-> 2, title |-> <<"a">>,
                category |-> <<"t">>]}

Next ==
  \/ Tick
  \/ Deliver
  \/ \E body \in LoginBodies : Login(body)
  \/ Logout
  \/ \E c \in Cookies : GetUser(c, {"a@x"})
  \/ \E c \in Cookies : PostUser(c, UserBodies)
  \/ \E c \in Cookies : PutUser(c, IdParams, UserUpdates)
  \/ \E c \in Cookies : DeleteUser(c, IdParams)
  \/ \E c \in Cookies : PostBlog(c, BlogBodies)
  \/ \E c \in Cookies : PutBlog(c, IdParams, BlogUpdates)
  \/ \E c \in Cookies : DeleteBlog(c, IdParams)
  \/ \E c \in Cookies : PostComment(c, CommentBodies)
  \/ \E c \in Cookies : PutComment(c, IdParams, CommentUpdates)
  \/ \E c \in Cookies : DeleteComment(c, IdParams)
  \/ \E c \in Cookies : WishlistLookup(c, WishBodies, 1)
  \/ \E r \in inflight : WishlistInsert(r)
  \/ \E c \in Cookies : DeleteWishlist(c, IdParams)
  \/ \E c \in Cookies : GetWishlist(c, 1)
  \/ \E c \in Cookies : CheckWishlist(c, 1, 2)

Spec == Init /\ [][Next]_vars

\* ---------------------------------------------------------------- SpecWish
\* The wishlist routes of part_001 with requests that overlap: the seed user
\* has logged in, and up to MaxInflight POST /api/wishlist requests wait
\* between their lookup and their insert.
SeedToken == JwtSign(1, JWT_SECRET, 0)
PairBodies == {[userId |-> 1, blogId |-> b, title |-> <<"a">>,
                category |-> <<"t">>] : b \in {2, 3}}

InitWish ==
  /\ build = "part_001"
  /\ env = [SECURE |-> "development"]
  /\ up = TRUE
  /\ now = 0
  /\ users = {SeedUser}
  /\ blogs = {}
  /\ comments = {}
  /\ wishlist = {}
  /\ nextId = 2
  /\ issued = {SeedToken}
  /\ jar = SeedToken
  /\ inflight = {}
  /\ last = Idle

NextWish ==
  \/ Deliver
  \/ \E c \in Cookies : WishlistLookup(c, PairBodies, MaxInflight)
  \/ \E r \in inflight : WishlistInsert(r)
  \/ \E c \in Cookies : DeleteWishlist(c, (1..MaxIds) \cup {BadId})
  \/ \E c \in Cookies : GetWishlist(c, 1)
  \/ \E c \in Cookies, b \in {2, 3} : CheckWishlist(c, 1, b)

SpecWish == InitWish /\ [][NextWish]_vars

\* ------------------------------------------------------------- SpecWishSeq
\* The wishlist routes with POST /api/wishlist requests one after the other:
\* a single slot, so a request's insert is over before the next lookup that
\* finds nothing can start.
NextWishSeq ==
  \/ Deliver
  \/ \E c \in Cookies : WishlistLookup(c, PairBodies, 1)
  \/ \E r \in inflight : WishlistInsert(r)
  \/ \E c \in Cookies : DeleteWishlist(c, (1..MaxIds) \cup {BadId})
  \/ \E c \in Cookies : GetWishlist(c, 1)

SpecWishSeq == InitWish /\ [][NextWishSeq]_vars

\* ---------------------------------------------------------- SpecWishSearch
\* GET /api/wishlist/search over a wishlist of up to MaxItems documents, each
\* one of SampleItems: items saved with the blog's title and category, and
\* one saved with the ids alone.
SampleItems ==
  <<[userId |-> 1, blogId |-> 2, title |-> <<"a", "b">>, category |-> <<"t">>],
    [userId |-> 1, blogId |-> 3, title |-> <<"B">>, category |-> <<"u">>],
    [userId |-> 2, blogId |-> 2, title |-> <<"a", "b">>, category |-> <<"t">>],
    [userId |-> 1, blogId |-> 3, title |-> NoParam, category |-> NoParam]>>

WishSearchCategories == {NoParam, <<>>, <<"t">>, <<" ", "t">>, <<"u">>,
                         ArrayParam}
WishSearchQueries == {NoParam, <<>>, <<"a">>, <<"b", " ">>, <<".">>, <<"(">>,
                      <<"x">>, ArrayParam}

InitWishSearch ==
  /\ build = "part_001"
  /\ env \in [SECURE : {"production", "development"}]
  /\ up = TRUE
  /\ now = 0
  /\ users = {SeedUser}
  /\ blogs = {}
  /\ comments = {}
  /\ \E pick \in [1..MaxItems -> 0..Len(SampleItems)] :
       wishlist = {WithId(SampleItems[pick[id]], id) :
                     id \in {i \in 1..MaxItems : pick[i] # 0}}
  /\ nextId = MaxItems + 1
  /\ issued = {SeedToken}
  /\ jar = SeedToken
  /\ inflight = {}
  /\ last = Idle

NextWishSearch ==
  \/ Deliver
  \/ \E c \in Cookies :
       WishlistSearch(c, WishSearchCategories, WishSearchQueries, 1..MaxIds)
  \/ \E c \in Cookies : GetWishlist(c, 1)

SpecWishSearch == InitWishSearch /\ [][NextWishSearch]_vars

\* -------------------------------------------------------------- SpecSearch
\* The blog listings over a collection of up to MaxBlogs documents, each one
\* of SampleBlogs, and query strings over the letters a, B, the space, and
\* the regular-expression characters "." and "(".
SampleBlogs ==
  <<[title |-> <<"a", "b">>, category |-> <<"t">>, published |-> 1],
    [title |-> <<"B">>, category |-> <<"t">>, published |-> 2],
    [title |-> <<"b", "A">>, category |-> <<"u">>, published |-> 2],
    [title |-> <<".", "a">>, category |-> <<"u">>, published |-> 3]>>

BlogDoc(id, k) ==
  [_id |-> id, title |-> SampleBlogs[k].title,
   category |-> SampleBlogs[k].category,
   published |-> SampleBlogs[k].published, userId |-> 1,
   userName |-> "ann", userImage |-> "img"]

QueryChars == {"a", "B", ".", " ", "("}
Queries == {NoParam, <<>>} \cup {<<c>> : c \in QueryChars}
           \cup {<<c, d>> : c, d \in QueryChars}
Categories == {NoParam, <<>>, <<"t">>, <<" ", "t", " ">>, <<"u">>, <<"T">>,
               <<" ">>}
LimitParams == {<<"0">>, <<"1">>, <<"2">>, <<"4">>, <<"-", "1">>,
                <<"1", "x">>}

InitSearch ==
  /\ build \in Builds
  /\ env = [SECURE |-> "development"]
  /\ up = TRUE
  /\ now = 0
  /\ users = {SeedUser}
  /\ \E pick \in [1..MaxBlogs -> 0..Len(SampleBlogs)] :
       blogs = {BlogDoc(id, pick[id]) : id \in {i \in 1..MaxBlogs : pick[i] # 0}}
  /\ comments = {}
  /\ wishlist = {}
  /\ nextId = MaxBlogs + 1
  /\ issued = {}
  /\ jar = NoToken
  /\ inflight = {}
  /\ last = Idle

NextSearch ==
  \/ Deliver
  \/ GetBlogs
  \/ \E c \in Categories, q \in Queries : SearchBlogs(c, q)
  \/ \E l \in LimitParams : RecentLimit(l)
  \/ RecentBlogs
  \/ \E id \in (1..MaxBlogs) \cup {BadId} : GetBlog(id)

SpecSearch == InitSearch /\ [][NextSearch]_vars

\* ---------------------------------------------------------------- SpecRoute
\* GET requests by path: the router picks the handler.  A path no
\* registration fits gets the framework's 404.
Get(cookie, path) ==
  LET route == Dispatch("GET", path) IN
  CASE route = "GET /api/blogs" -> GetBlogs
    [] route = "GET /api/blogs/search" -> SearchBlogs(NoParam, NoParam)
    [] route = "GET /api/blogs/recent/:limit" -> RecentLimit(<<path[4]>>)
    [] route = "GET /api/blogs/recent" -> RecentBlogs
    [] route = "GET /api/blogs/:id" -> GetBlog(ParamId(path[3]))
    [] route = "GET /api/wishlist/search"
         -> WishlistSearch(cookie, {NoParam}, {NoParam}, {1})
    [] route = "GET /api/wishlist/:userId"
         -> GetWishlist(cookie, ParamId(path[3]))
    [] route = "GET /api/wishlist/:userId/:blogId"
         -> CheckWishlist(cookie, ParamId(path[3]), ParamId(path[4]))
    [] OTHER
         -> /\ Ready
            /\ last' = Response(NoRoute, cookie, <<>>, 404, FALSE, {}, <<>>)
            /\ UNCHANGED <<build, env, up, now, users, blogs, comments,
                           wishlist, nextId, issued, jar, inflight>>

GetPaths ==
  {<<"api", "blogs">>, <<"api", "blogs", "search">>,
   <<"api", "blogs", "recent">>, <<"api", "blogs", "recent", "2">>,
   <<"api", "blogs", "1">>, <<"api", "blogs", "x">>,
   <<"api", "wishlist", "search">>, <<"api", "wishlist", "1">>,
   <<"api", "wishlist", "1", "2">>, <<"api", "wishlist", "search", "2">>,
   <<"api", "nothing">>}

InitRoute ==
  /\ build \in Builds
  /\ env = [SECURE |-> "development"]
  /\ up = TRUE
  /\ now = 0
  /\ users = {SeedUser}
  /\ blogs = {BlogDoc(1, 1), BlogDoc(2, 2)}
  /\ comments = {}
  /\ \E pick \in [1..MaxItems -> 0..Len(SampleItems)] :
       wishlist = {WithId(SampleItems[pick[id]], id) :
                     id \in {i \in 1..MaxItems : pick[i] # 0}}
  /\ nextId = MaxBlogs + 1
  /\ issued = {SeedToken}
  /\ jar = SeedToken
  /\ inflight = {}
  /\ last = Idle

NextRoute ==
  \/ Deliver
  \/ \E c \in Cookies, path \in GetPaths : Get(c, path)

SpecRoute == InitRoute /\ [][NextRoute]_vars

\* ------------------------------------------------------------------- claims
\* A step that took one request from arrival to the end of its handler: it
\* puts an exchange on the wire, and no request entered or left the wait for
\* insertOne.  last' is that request's exchange.
Handled == last = Idle /\ last' # Idle /\ inflight' = inflight

\* The cookie is a token login issued, and its expiry lies ahead of clock.
LiveToken(cookie, clock) == cookie \in issued /\ clock < cookie.body.exp

\* C1: on every route registered with verifyJWT, a request without a token
\* cookie is answered 403, its handler is not run, and users, blogs, comments
\* and wishlist are left as they were.
C1_NoTokenIs403 ==
  [][(Handled /\ IsGated(last'.route) /\ last'.cookie = NoToken)
       => (last'.status = 403 /\ ~last'.ran /\ db' = db)]_vars

C1_Witness ==
  /\ last.route = "POST /api/wishlist"
  /\ last.cookie = NoToken
  /\ last.status = 403
  /\ issued # {}

\* C2: on every route registered with verifyJWT, a token cookie that the
\* server secret did not sign, or whose expiry has passed, is answered 401
\* with the handler not run and every collection unchanged; the handler runs
\* only for a token login issued that has not expired.
C2_BadTokenIs401 ==
  [][/\ (Handled /\ IsGated(last'.route) /\ last'.cookie # NoToken
          /\ ~LiveToken(last'.cookie, now))
        => (last'.status = 401 /\ ~last'.ran /\ db' = db)
     /\ (Handled /\ IsGated(last'.route) /\ last'.ran)
        => LiveToken(last'.cookie, now)
     /\ \A r \in inflight' \ inflight : LiveToken(r.cookie, now)]_vars

C2_Witness ==
  /\ IsGated(last.route)
  /\ last.status = 401
  /\ last.cookie \in {Tampered(t) : t \in issued}
  /\ now < last.cookie.body.exp

\* C3: POST /api/login answers 200 with a freshly signed token set as the
\* token cookie exactly when some user document has the request's email,
\* whatever userName the body carries; otherwise it answers 401, signs
\* nothing and sets no cookie.
C3_LoginByEmailAlone ==
  [][(Handled /\ last'.route = "POST /api/login")
       => IF \E u \in users : u.email = last'.req[1].email
          THEN /\ last'.status = 200
               /\ \E c \in last'.set :
                     /\ c.token \in issued'
                     /\ JwtVerify(c.token, JWT_SECRET, now)
                     /\ jar' = c.token
          ELSE /\ last'.status = 401
               /\ last'.set = {}
               /\ issued' = issued]_vars

\* The wishlist holds an item for the body's (userId, blogId) pair.
PairItems(coll, body) ==
  {w \in coll : w.userId = body.userId /\ w.blogId = body.blogId}

\* A step in which a POST /api/wishlist passed its lookup and began to wait,
\* and one in which a waiting request did its insert.
LookupPassed == Cardinality(inflight') > Cardinality(inflight)
InsertDone == Cardinality(inflight') < Cardinality(inflight)

\* C4: POST /api/wishlist answers 400 and leaves the wishlist unchanged
\* exactly when its lookup finds an item for the (userId, blogId) pair; when
\* the lookup finds none, the request goes on to insert exactly one item,
\* for that pair, and answers 201.
C4_DuplicateIs400 ==
  [][/\ (Handled /\ last'.route = "POST /api/wishlist" /\ last'.ran)
        => /\ last'.status = 400
           /\ PairItems(wishlist, last'.req[1]) # {}
           /\ wishlist' = wishlist
     /\ LookupPassed
        => /\ \A r \in inflight' \ inflight : PairItems(wishlist, r.body) = {}
           /\ wishlist' = wishlist
     /\ InsertDone
        => /\ last'.status = 201
           /\ \E w \in wishlist' \ wishlist :
                 /\ wishlist' = wishlist \cup {w}
                 /\ w \in PairItems(wishlist', last'.req[1])]_vars

C4_Witness ==
  /\ last.route = "POST /api/wishlist"
  /\ last.status = 400
  /\ PairItems(wishlist, last.req[1]) # {}
  /\ \E w \in wishlist : w \notin PairItems(wishlist, last.req[1])

\* C5: the insert of POST /api/wishlist does not look again: a request that
\* passed its lookup inserts its item and answers 201 whatever the wishlist
\* holds by then, so two overlapping requests for one pair leave two items
\* for that pair.
C5_InsertDoesNotRecheck ==
  [][InsertDone
       => /\ last'.status = 201
          /\ Cardinality(PairItems(wishlist', last'.req[1]))
               = Cardinality(PairItems(wishlist, last'.req[1])) + 1]_vars

C5_Witness ==
  /\ last.route = "POST /api/wishlist"
  /\ last.status = 201
  /\ Cardinality(PairItems(wishlist, last.req[1])) = 2

\* The set of documents a listing returned.
Returned == {last.body[i] : i \in DOMAIN last.body}

\* needle occurs in hay as a literal substring, letter case ignored.
ContainsFolded(needle, hay) ==
  \E i \in 1..(Len(hay) - Len(needle) + 1) :
     \A j \in DOMAIN needle : Fold(needle[j]) = Fold(hay[i + j - 1])

\* C6: GET /api/blogs/search answers 200 with exactly the blogs whose
\* category equals the trimmed category parameter (when one is given) and
\* whose title contains the trimmed query parameter as a substring, letter
\* case ignored (when one is given); an absent or empty parameter puts no
\* restriction.
C6_SearchIsSubstringMatch ==
  (last.route = "GET /api/blogs/search" /\ last.ran)
    => /\ last.status = 200
       /\ Returned =
            {b \in blogs :
               /\ Truthy(last.req[1]) => b.category = Trim(last.req[1])
               /\ Truthy(last.req[2]) => ContainsFolded(Trim(last.req[2]), b.title)}

\* A list in which no blog is followed by one published later.
Descending(list) ==
  \A i \in 1..(Len(list) - 1) : list[i].published >= list[i + 1].published

Min(a, b) == IF a < b THEN a ELSE b

\* C7: the listings search, recent and recent/:limit come ordered by
\* descending publish date, and recent/:limit returns the
\* min(limit, number of blogs) most recently published blogs.
C7_ListingsDescendingAndLimited ==
  /\ (/\ last.route \in {"GET /api/blogs/search", "GET /api/blogs/recent",
                         "GET /api/blogs/recent/:limit"}
      /\ last.ran /\ last.status = 200)
       => Descending(last.body)
  /\ (last.route = "GET /api/blogs/recent/:limit" /\ last.ran)
       => /\ Len(last.body) = Min(ParseInt(last.req[1]), Cardinality(blogs))
          /\ Cardinality(Returned) = Len(last.body)
          /\ Returned \subseteq blogs
          /\ \A b \in Returned, o \in blogs \ Returned :
                o.published <= b.published

C9_LogoutDoesNotRevoke ==
  [][/\ (Handled /\ last'.route = "POST /api/logout")
        => (jar' = NoToken /\ db' = db /\ issued' = issued /\ env' = env)
     /\ (Handled /\ IsGated(last'.route) /\ LiveToken(last'.cookie, now))
        => (last'.ran /\ last'.status \notin {401, 403})
     /\ \A r \in inflight' \ inflight : LiveToken(r.cookie, now)]_vars

C9_Witness ==
  /\ jar = NoToken
  /\ IsGated(last.route)
  /\ last.cookie \in issued
  /\ last.ran
  /\ last.status = 200

\* C10: every request whose handler was called is answered: no exchange ends
\* with the handler run and no status sent.
C10_EveryRequestAnswered == last.ran => last.status # NoStatus

\* C11: GET /api/wishlist/search with a valid token answers once in every
\* case and never changes the wishlist: 500 with the generic failure message
\* when building the filter or the query throws, 200 with a message object
\* when no item matches, 200 with the list of the matching items otherwise.
C11_WishlistSearchAnswers ==
  [][(/\ Handled /\ last'.route = "GET /api/wishlist/search"
      /\ LiveToken(last'.cookie, now))
       => LET category == last'.req[1]
              query == last'.req[2]
              userId == last'.req[3]
              found == WishFind(wishlist, category, query, userId)
              sent == {last'.body[i] : i \in DOMAIN last'.body}
          IN  /\ last'.ran /\ wishlist' = wishlist /\ up' = up
              /\ IF SearchThrows(category, query)
                 THEN last'.status = 500 /\ last'.body = <<FailedMessage>>
                 ELSE /\ last'.status = 200
                      /\ IF found = {}
                         THEN last'.body = <<NoMatchMessage>>
                         ELSE sent = found /\ Len(last'.body) = Cardinality(found)]_vars

\* A search whose pattern the database rejects has been answered 500, to a
\* request that carried an issued, unexpired token.
C11_Witness ==
  /\ last.route = "GET /api/wishlist/search" /\ last.ran
  /\ last.status = 500 /\ last.req[2] = <<"(">>
  /\ LiveToken(last.cookie, now)

\* The documents a step adds to blogs or to comments.
Created == (blogs' \ blogs) \cup (comments' \ comments)

\* A new document carries its author's name and image, or, when no user has
\* its userId, is one of the request bodies with an _id added.
CarriesAuthor(d, bodies) ==
  LET authors == {u \in users : u._id = d.userId} IN
  IF authors # {}
  THEN \A u \in authors :
          d.userName = u.userName /\ d.userImage = u.profileImage
  ELSE \E body \in bodies : d = WithId(body, d._id)

\* C12: a blog or comment created with the userId of an existing user is
\* stored with userName and userImage set to that user's userName and
\* profileImage, whatever the request sent for them; when no user has that
\* id the document is stored as sent.
C12_NewDocsCarryAuthor ==
  [][/\ (Handled /\ last'.route = "POST /api/blogs" /\ last'.status = 201)
          => /\ Created # {}
             /\ \A d \in Created : CarriesAuthor(d, BlogBodies)
     /\ (Handled /\ last'.route = "POST /api/comments" /\ last'.status = 201)
          => /\ Created # {}
             /\ \A d \in Created : CarriesAuthor(d, CommentBodies)]_vars

\* C13: a comment's author name and image are fixed when it is written: a
\* PUT /api/users/:id or a DELETE /api/users/:id leaves every comment
\* document as it was, so a comment can carry a name that is no longer its
\* author's.
C13_UserWritesLeaveComments ==
  [][(/\ last = Idle /\ last' # Idle
      /\ last'.route \in {"PUT /api/users/:id", "DELETE /api/users/:id"})
       => comments' = comments]_vars

\* The author of a stored comment has been renamed, and the comment still
\* carries the old name.
C13_Witness ==
  /\ last.route = "PUT /api/users/:id" /\ last.status = 200
  /\ \E c \in comments, u \in users :
        u._id = c.userId /\ c.userName # u.userName

\* The collection a users, blogs or comments route writes.
Coll(route) ==
  CASE route \in {"PUT /api/users/:id", "DELETE /api/users/:id"} -> users
    [] route \in {"PUT /api/blogs/:id", "DELETE /api/blogs/:id"} -> blogs
    [] OTHER -> comments
CollAfter(route) ==
  CASE route \in {"PUT /api/users/:id", "DELETE /api/users/:id"} -> users'
    [] route \in {"PUT /api/blogs/:id", "DELETE /api/blogs/:id"} -> blogs'
    [] OTHER -> comments'
OthersUnchanged(route) ==
  /\ wishlist' = wishlist
  /\ route \notin {"PUT /api/users/:id", "DELETE /api/users/:id"}
       => users' = users
  /\ route \notin {"PUT /api/blogs/:id", "DELETE /api/blogs/:id"}
       => blogs' = blogs
  /\ route \notin {"PUT /api/comments/:id", "DELETE /api/comments/:id"}
       => comments' = comments

PutRoutes == {"PUT /api/users/:id", "PUT /api/blogs/:id",
              "PUT /api/comments/:id"}
DeleteRoutes == {"DELETE /api/users/:id", "DELETE /api/blogs/:id",
                 "DELETE /api/comments/:id"}

C15_CookieFlagsFollowEnv ==
  [][(Handled /\ last'.route = "POST /api/login" /\ last'.status = 200)
       => /\ last'.set # {}
          /\ \A c \in last'.set :
                /\ c.options.httpOnly
                /\ c.options.secure <=> (env.SECURE = "production")
          /\ env'.SECURE = env.SECURE]_vars

\* C16: when POST /api/wishlist requests do not overlap, the wishlist, empty
\* at the start, holds at most one item for each (userId, blogId) pair after
\* any sequence of adds and removes.
C16_OneItemPerPair ==
  \A v, w \in wishlist :
     (v.userId = w.userId /\ v.blogId = w.blogId) => v = w

\* A second add has been answered 201 and the wishlist holds two items.
C16_Witness ==
  /\ last.route = "POST /api/wishlist" /\ last.status = 201
  /\ Cardinality(wishlist) = 2

\* C17: the first registered route that fits handles the request, and the
\* fixed paths are registered before the parameterised ones they overlap
\* with: GET /api/blogs/search and GET /api/blogs/recent go to the search and
\* recent handlers, never to GET /api/blogs/:id, and GET /api/wishlist/search
\* goes to the wishlist search handler, never to GET /api/wishlist/:userId.
C17_FixedPathsBeforeParams ==
  [][\A c \in Cookies :
       /\ Get(c, <<"api", "blogs", "search">>)
            => last'.route = "GET /api/blogs/search"
       /\ Get(c, <<"api", "blogs", "recent">>)
            => last'.route = "GET /api/blogs/recent"
       /\ (Get(c, <<"api", "wishlist", "search">>)
             /\ Registered("GET /api/wishlist/search"))
            => last'.route = "GET /api/wishlist/search"]_vars

\* GET /api/wishlist/search has been handled by the search handler.
C17_Witness ==
  /\ last.route = "GET /api/wishlist/search" /\ last.ran
  /\ last.status = 200

====
